---- MODULE Spec2Model ----
(***************************************************************************)
(* Model of src/sabnzbd/sabnzbd-discord.py: the SABnzbd -> Discord webhook *)
(* notification script.                                                    *)
(*                                                                         *)
(* A Python str is modelled as a sequence of characters.  The alphabet     *)
(* holds the separator characters the code looks at (" ", ":", ",", "/",   *)
(* "\n", "\r") and words: a word stands for a run of letters holding none  *)
(* of the separators, so strip(), split(), splitlines() and "in" act on    *)
(* the sequence exactly as they act on the str.  lower() and capitalize()  *)
(* act on a word through the table CaseTable.                              *)
(*                                                                         *)
(* Line 19 of the file holds a stray name (g), so loading the file as it   *)
(* stands raises NameError before main is called.  The model describes the *)
(* functions and main from their entry, with DEFAULT_WEBHOOK and           *)
(* DEFAULT_DEBUG ranging over the values an installation may set.          *)
(***************************************************************************)
EXTENDS Integers, Sequences, FiniteSets, TLC

VARIABLES
    pc,              \* position in main / in the function under study
    DEFAULT_WEBHOOK, \* the configured destination (line 14)
    DEFAULT_DEBUG,   \* the configured debug switch (line 20)
    argv,            \* main's positional arguments
    ntype,           \* event kind handed to make_embed
    title,           \* title handed to make_embed
    message,         \* body handed to make_embed / extract_fields_from_message
    urls,            \* url list handed to make_embed
    embed,           \* the document make_embed returned
    extracted,       \* result of extract_fields_from_message(message)
    reextracted,     \* result of extract_fields_from_message(extracted.cleaned)
    transport,       \* what urlopen did
    attempts,        \* number of urlopen calls made
    stderr,          \* diagnostic lines printed so far
    stdout,          \* lines printed to standard output
    ok,              \* send_webhook's return value
    exitcode         \* main's return value

vars == <<pc, DEFAULT_WEBHOOK, DEFAULT_DEBUG, argv, ntype, title, message, urls,
          embed, extracted, reextracted, transport, attempts, stderr, stdout,
          ok, exitcode>>

\* ------------------------------------------------------------------ bounds
\* longest message of the exhaustive message set
MaxLen == 5
\* most lines of a message built from SampleLines
MaxLines == 2
\* most positional arguments handed to main
MaxArgs == 4

\* --------------------------------------------------- str, as the code uses it
\* <<lower, Capitalized, UPPER>> spellings of the words of the model.
CaseTable ==
    { <<"category", "Category", "CATEGORY">>,
      <<"status", "Status", "STATUS">>,
      <<"download", "Download", "DOWNLOAD">>,
      <<"complete", "Complete", "COMPLETE">>,
      <<"failed", "Failed", "FAILED">>,
      <<"error", "Error", "ERROR">>,
      <<"warning", "Warning", "WARNING">>,
      <<"queue_done", "Queue_done", "QUEUE_DONE">>,
      <<"startup", "Startup", "STARTUP">>,
      <<"pause_resume", "Pause_resume", "PAUSE_RESUME">>,
      <<"pp", "Pp", "PP">>,
      <<"disk_full", "Disk_full", "DISK_FULL">>,
      <<"other", "Other", "OTHER">>,
      <<"xyz", "Xyz", "XYZ">>,
      <<"movies", "Movies", "MOVIES">>,
      <<"t", "T", "T">> }

Spellings(c) == {p \in CaseTable : c \in {p[1], p[2], p[3]}}

LowerChar(c) == IF Spellings(c) = {} THEN c ELSE (CHOOSE p \in Spellings(c) : TRUE)[1]

CapChar(c) == IF Spellings(c) = {} THEN c ELSE (CHOOSE p \in Spellings(c) : TRUE)[2]

\* str.lower()
Lower(s) == [i \in 1..Len(s) |-> LowerChar(s[i])]

\* str.capitalize(): first character upper-cased, the rest lower-cased
Capitalize(s) == [i \in 1..Len(s) |-> IF i = 1 THEN CapChar(s[1]) ELSE LowerChar(s[i])]

\* the characters str.strip() removes
IsSpace(c) == c \in {" ", "\t", "\n", "\r"}

\* str.strip()
Strip(s) ==
    LET black == {i \in 1..Len(s) : ~IsSpace(s[i])}
    IN  IF black = {} THEN <<>>
        ELSE SubSeq(s, CHOOSE i \in black : \A j \in black : i <= j,
                       CHOOSE i \in black : \A j \in black : j <= i)

\* index of the first occurrence of character c in s, 0 when there is none
Find(s, c) ==
    LET hits == {i \in 1..Len(s) : s[i] = c}
    IN  IF hits = {} THEN 0 ELSE CHOOSE i \in hits : \A j \in hits : i <= j

\* str.split(c): the pieces of s between the occurrences of c
RECURSIVE Split(_, _)
Split(s, c) ==
    LET i == Find(s, c)
    IN  IF i = 0 THEN <<s>>
        ELSE <<SubSeq(s, 1, i - 1)>> \o Split(SubSeq(s, i + 1, Len(s)), c)

\* str.splitlines(): "\n", "\r" and "\r\n" end a line; no empty last line
RECURSIVE SplitLines(_)
SplitLines(s) ==
    LET breaks == {i \in 1..Len(s) : s[i] \in {"\n", "\r"}}
    IN  IF s = <<>> THEN <<>>
        ELSE IF breaks = {} THEN <<s>>
        ELSE LET i == CHOOSE b \in breaks : \A j \in breaks : b <= j
                 skip == IF s[i] = "\r" /\ i < Len(s) /\ s[i + 1] = "\n" THEN 2 ELSE 1
             IN  <<SubSeq(s, 1, i - 1)>> \o SplitLines(SubSeq(s, i + skip, Len(s)))

\* sep.join(parts)
RECURSIVE Join(_, _)
Join(parts, sep) ==
    IF parts = <<>> THEN <<>>
    ELSE IF Len(parts) = 1 THEN parts[1]
    ELSE parts[1] \o sep \o Join(Tail(parts), sep)

\* ------------------------------------------------------------ the event table
EVENT_MAP ==
    [k \in { <<"download">>, <<"complete">>, <<"failed">>, <<"error">>, <<"warning">>,
             <<"queue_done">>, <<"startup">>, <<"pause_resume">>, <<"pp">>,
             <<"disk_full">>, <<"other">> } |->
        CASE k = <<"download">>     -> <<<<"Added", " ", "NZB">>, "inbox", \hF39C12>>
          [] k = <<"complete">>     -> <<<<"Job", " ", "finished">>, "check", \h2ECC71>>
          [] k = <<"failed">>       -> <<<<"Job", " ", "failed">>, "cross", \hE74C3C>>
          [] k = <<"error">>        -> <<<<"Error">>, "stop", \hE74C3C>>
          [] k = <<"warning">>      -> <<<<"Warning">>, "warn", \hF1C40F>>
          [] k = <<"queue_done">>   -> <<<<"Queue", " ", "finished">>, "info", \h3498DB>>
          [] k = <<"startup">>      -> <<<<"Startup/Shutdown">>, "info", \h3498DB>>
          [] k = <<"pause_resume">> -> <<<<"Pause/Resume">>, "pause", \h3498DB>>
          [] k = <<"pp">>           -> <<<<"Post-processing", " ", "started">>, "wrench", \h3498DB>>
          [] k = <<"disk_full">>    -> <<<<"Disk", " ", "full">>, "boom", \hF1C40F>>
          [] k = <<"other">>        -> <<<<"Other">>, "info", \h3498DB>>]

\* ------------------------------------------------- extract_fields_from_message
FIELD_KEYS == { <<"category">>, <<"download", " ", "status">>, <<"status">> }

\* DictSet that keeps the value a key already has
DictSetFirstWins(d, k, v) ==
    [x \in DOMAIN d \cup {k} |-> IF x \in DOMAIN d THEN d[x] ELSE v]

\* fields[k0] = v0
DictSet(d, k, v) == [x \in DOMAIN d \cup {k} |-> IF x = k THEN v ELSE d[x]]

EmptyDict == [x \in {} |-> <<>>]

\* LineKey without the strip()
LineKeyNoStrip(line) == Lower(SubSeq(line, 1, Find(line, ":") - 1))

\* k0 of a line holding ":" (lines 78-79)
LineKey(line) == Lower(Strip(SubSeq(line, 1, Find(line, ":") - 1)))

\* v0 of a line holding ":" (lines 78, 80)
LineValue(line) == Strip(SubSeq(line, Find(line, ":") + 1, Len(line)))

\* whether the loop body extracts the line instead of keeping it (lines 77-83)
IsFieldLine(line) == Find(line, ":") # 0 /\ LineKey(line) \in FIELD_KEYS

\* the for loop of lines 76-84, from line i on
RECURSIVE ExtractLoop(_, _, _, _)
ExtractLoop(lines, i, keep_lines, fields) ==
    IF i > Len(lines) THEN [keep_lines |-> keep_lines, fields |-> fields]
    ELSE IF IsFieldLine(lines[i])
         THEN ExtractLoop(lines, i + 1, keep_lines,
                          DictSet(fields, LineKey(lines[i]), LineValue(lines[i])))
         ELSE ExtractLoop(lines, i + 1, Append(keep_lines, lines[i]), fields)

extract_fields_from_message(msg) ==
    LET r == ExtractLoop(SplitLines(msg), 1, <<>>, EmptyDict)
    IN  [cleaned |-> Strip(Join(r.keep_lines, <<"\n">>)), fields |-> r.fields]

\* ------------------------------------------------------- color_emoji_for_color
color_emoji_for_color(color) ==
    IF color = \hF39C12 \/ (\hF00000 <= color /\ color <= \hFFFF00) THEN "orange_circle"
    ELSE IF color = \h2ECC71 \/ (\h00FF00 <= color /\ color <= \h33FF33) THEN "green_circle"
    ELSE IF color = \hE74C3C \/ (\hFF0000 <= color /\ color <= \hFF5555) THEN "red_circle"
    ELSE IF color = \hF1C40F THEN "yellow_circle"
    ELSE IF color = \h3498DB THEN "blue_circle"
    ELSE "white_square"

\* ------------------------------------------------------------------ make_embed
Abs(n) == IF n < 0 THEN 0 - n ELSE n

\* round(q * 255) for the channel q = num / 600000
Channel(num) == (2 * num * 255 + 600000) \div (2 * 600000)

\* hsl_to_rgb_int(h, s, l) with h in whole degrees and s, l in whole percent;
\* c, x and m are kept exact as multiples of 1/600000
hsl_to_rgb_int(h, s, l) ==
    LET c  == (100 - Abs(2 * l - 100)) * s * 60
        x  == (100 - Abs(2 * l - 100)) * s * (60 - Abs((h % 120) - 60))
        m  == l * 6000 - (c \div 2)
        rgb1 == IF h < 60 THEN <<c, x, 0>>
                ELSE IF h < 120 THEN <<x, c, 0>>
                ELSE IF h < 180 THEN <<0, c, x>>
                ELSE IF h < 240 THEN <<0, x, c>>
                ELSE IF h < 300 THEN <<x, 0, c>>
                ELSE <<c, 0, x>>
    IN  Channel(rgb1[1] + m) * 65536 + Channel(rgb1[2] + m) * 256 + Channel(rgb1[3] + m)

\* EVENT_MAP.get(ntype, (ntype.capitalize(), info, 0x3498DB))  (line 108)
MapEntry(nt) ==
    IF nt \in DOMAIN EVENT_MAP THEN EVENT_MAP[nt]
    ELSE <<Capitalize(nt), "info", \h3498DB>>

\* d.get(k) or default: a missing key and an empty value both give the default
GetOr(d, k, default) == IF k \in DOMAIN d /\ d[k] # <<>> THEN d[k] ELSE default

\* category of line 114
Category(parsed_fields, nt) == GetOr(parsed_fields, <<"category">>, nt)

\* download_status of line 115
DownloadStatus(parsed_fields, nt) ==
    GetOr(parsed_fields, <<"download", " ", "status">>,
          GetOr(parsed_fields, <<"status">>, nt))

\* Description without the fallback to the title
DescriptionNoFallback(cleaned, ti) == cleaned

\* description of line 153: description or title
Description(cleaned, ti) == IF cleaned # <<>> THEN cleaned ELSE ti

\* The timestamp (line 155) is the wall clock and is left out of the document.
make_embed(nt, ti, body, us) ==
    LET label  == MapEntry(nt)[1]
        emoji  == MapEntry(nt)[2]
        color  == MapEntry(nt)[3]
        parsed == extract_fields_from_message(body)
        circle == color_emoji_for_color(color)
        doc ==
            [ title       |-> <<"SABnzbd", ":", " ", emoji, " ">> \o label,
              description |-> Description(parsed.cleaned, ti),
              color       |-> IF color # 0 THEN color ELSE hsl_to_rgb_int(37, 100, 50),
              author      |-> [name |-> "SABnzbd", icon_url |-> "https://github.com/sabnzbd.png"],
              fields      |-> << [name |-> "Category",
                                  value |-> <<circle, " ">> \o Category(parsed.fields, nt),
                                  inline |-> TRUE],
                                 [name |-> "Download Status",
                                  value |-> <<emoji, " ">> \o DownloadStatus(parsed.fields, nt),
                                  inline |-> TRUE] >>,
              footer      |-> [text |-> "SABnzbd Notification"] ]
    IN  IF us # <<>> THEN doc @@ [thumbnail |-> [url |-> us[1]]] ELSE doc

\* ---------------------------------------------------------------- send_webhook
\* payload of lines 172-176
Payload(username, avatar_url, doc) ==
    LET p0 == [embeds |-> <<doc>>]
        p1 == IF username # <<>> THEN p0 @@ [username |-> username] ELSE p0
    IN  IF avatar_url # <<>> THEN p1 @@ [avatar_url |-> avatar_url] ELSE p1

\* urllib.request.Request(webhook_url, ...) of line 195 raises ValueError
\* ("unknown url type") unless the text before the first ":" is a scheme:
\* non-empty and free of "/"
HasUrlType(url) ==
    /\ Find(url, ":") > 1
    /\ \A j \in 1..(Find(url, ":") - 1) : url[j] # "/"

\* ResponseOutcome with the upper end of the success range included
ResponseOutcomeInclusive(code) ==
    IF 200 <= code /\ code <= 300
    THEN [ok |-> TRUE,  lines |-> << <<"NOTICE: webhook POST succeeded (HTTP)", code>> >>]
    ELSE [ok |-> FALSE, lines |-> << <<"Discord responded with HTTP", code>> >>]

\* lines 198-203: urlopen handed back a response whose getcode() is code
ResponseOutcome(code) ==
    IF 200 <= code /\ code < 300
    THEN [ok |-> TRUE,  lines |-> << <<"NOTICE: webhook POST succeeded (HTTP)", code>> >>]
    ELSE [ok |-> FALSE, lines |-> << <<"Discord responded with HTTP", code>> >>]

\* the advisory text of lines 213-218
HintLine == <<"ERROR: Discord returned 403 Forbidden; regenerate the webhook", 403>>

Hint403(code) == IF code = 403 THEN <<HintLine>> ELSE <<>>

\* lines 204-219: urlopen raised HTTPError; body is "text" when e.read().decode()
\* gave text, "empty" when it gave "", "raises" when it raised
HTTPErrorOutcome(code, body) ==
    [ok |-> FALSE,
     lines |-> << <<"HTTPError", code>> >>
               \o (IF body = "text" THEN << <<"<response body>", 0>> >> ELSE <<>>)
               \o Hint403(code)]

\* lines 220-222: urlopen raised any other exception
ExceptionOutcome ==
    [ok |-> FALSE, lines |-> << <<"Error sending webhook", 0>> >>]

\* the try statement of lines 196-222, by what urlopen did
Classify(t) ==
    CASE t.kind = "response"   -> ResponseOutcome(t.code)
      [] t.kind = "http_error" -> HTTPErrorOutcome(t.code, t.body)
      [] t.kind = "exception"  -> ExceptionOutcome

\* ------------------------------------------------------------------------ main
\* NormalizeType without the strip()
NormalizeTypeNoStrip(a) == Lower(a)

\* ntype of line 252
NormalizeType(a) == Lower(Strip(a))

\* the pieces one argument adds to urls (lines 258-261)
RECURSIVE StripNonEmpty(_)
StripNonEmpty(parts) ==
    IF parts = <<>> THEN <<>>
    ELSE (IF Strip(parts[1]) # <<>> THEN <<Strip(parts[1])>> ELSE <<>>)
         \o StripNonEmpty(Tail(parts))

\* urls of lines 255-261, from the arguments after the third
RECURSIVE ParseUrls(_)
ParseUrls(args) ==
    IF args = <<>> THEN <<>>
    ELSE StripNonEmpty(Split(args[1], ",")) \o ParseUrls(Tail(args))

\* ---------------------------------------------------------------------- inputs
\* all strings of at most n characters over the alphabet S
Strings(S, n) == UNION {[1..k -> S] : k \in 0..n}

\* alphabet of the exhaustive message set: words that make (or fail to make) a
\* field key, blank, colon, line feed
MsgChars == {"Category", "status", "download", " ", ":", "\n"}

\* messages with the other line endings splitlines() knows
CrMessages ==
    { <<"status", ":", "\r", "download">>,
      <<"download", "\r", "\n", "Category", ":", "\r", "download">>,
      <<" ", "\r", "download", ":", "\r", "\n">> }

Messages == Strings(MsgChars, MaxLen) \cup CrMessages

Titles == {<<>>, <<"T">>}

\* lines from which the multi-line messages are built
SampleLines ==
    { <<"Category", ":", " ", "movies">>,
      <<"Category", ":">>,
      <<"category", " ", ":", "xyz">>,
      <<"Download", " ", "Status", ":", " ", "t">>,
      <<"download", " ", "status", ":">>,
      <<"status", ":", "failed">>,
      <<"STATUS", ":", " ">>,
      <<"other", ":", "status", ":", "xyz">>,
      <<"movies">>,
      <<>> }

SampleMessages ==
    UNION {{Join(ls, <<"\n">>) : ls \in [1..n -> SampleLines]} : n \in 0..MaxLines}

\* event kinds as a caller may spell them
RawKinds ==
    DOMAIN EVENT_MAP
    \cup { <<"Complete">>, <<" ", "complete">>, <<"COMPLETE", " ">>,
           <<" ", "Warning", "\n">>, <<"disk_full", " ">>, <<"Failed">>,
           <<"xyz">>, <<"XYZ">>, <<" ", "Xyz">>, <<>> }

Webhooks ==
    { <<>>,
      <<"https", ":", "/", "/", "discord.com", "/", "hook">>,
      <<"discord.com", "/", "hook">>,
      <<"/", "hook", ":", "1">> }

\* the values the i-th positional argument is drawn from
ArgAt(i) ==
    IF i = 1 THEN {<<"complete">>, <<" ", "Warning">>, <<"xyz">>}
    ELSE IF i = 2 THEN Titles
    ELSE IF i = 3 THEN {<<>>, <<"Category", ":", "movies", "\n", "movies">>, <<"status", ":">>}
    ELSE {<<"u1", ",", " ", "u2">>, <<" ", ",">>}

RECURSIVE ArgvsOfLen(_)
ArgvsOfLen(n) ==
    IF n = 0 THEN {<<>>}
    ELSE {Append(a, x) : a \in ArgvsOfLen(n - 1), x \in ArgAt(n)}

Argvs == UNION {ArgvsOfLen(n) : n \in 0..MaxArgs}

\* what urlopen can do: hand back a response with a status, raise HTTPError
\* (urllib raises it for statuses outside [200,300) only), raise anything else
TransportResults ==
    [kind : {"response"}, code : {199, 200, 204, 299, 300, 403, 500}]
    \cup [kind : {"http_error"}, code : {307, 400, 403, 404, 500},
          body : {"text", "empty", "raises"}]
    \cup {[kind |-> "exception"]}

NoEmbed == [unset |-> TRUE]

NoResult == [unset |-> TRUE]

NoTransport == [kind |-> "none"]

\* ------------------------------------------------------------ main, step by step
\* stderr of lines 229-241
Prologue ==
    (IF DEFAULT_WEBHOOK # <<>>
     THEN << <<"NOTICE: using built-in DEFAULT_WEBHOOK", Len(DEFAULT_WEBHOOK)>> >>
     ELSE <<>>)
    \o << <<"DEBUG INFO", 0>> >>

\* lines 226-245, no destination: return 2
MainNoWebhook ==
    /\ pc = "main"
    /\ DEFAULT_WEBHOOK = <<>>
    /\ stderr' = stderr \o Prologue \o << <<"ERROR: No webhook configured", 0>> >>
    /\ exitcode' = 2
    /\ pc' = "exit"
    /\ UNCHANGED <<DEFAULT_WEBHOOK, DEFAULT_DEBUG, argv, ntype, title, message, urls,
                   embed, extracted, reextracted, transport, attempts, stdout, ok>>

\* lines 226-243, a destination is set
MainConfigured ==
    /\ pc = "main"
    /\ DEFAULT_WEBHOOK # <<>>
    /\ stderr' = stderr \o Prologue
    /\ pc' = "args"
    /\ UNCHANGED <<DEFAULT_WEBHOOK, DEFAULT_DEBUG, argv, ntype, title, message, urls,
                   embed, extracted, reextracted, transport, attempts, stdout, ok,
                   exitcode>>

\* lines 248-250: return 1
MainTooFewArgs ==
    /\ pc = "args"
    /\ Len(argv) < 3
    /\ stderr' = stderr \o << <<"ERROR: Not enough arguments", 0>> >>
    /\ exitcode' = 1
    /\ pc' = "exit"
    /\ UNCHANGED <<DEFAULT_WEBHOOK, DEFAULT_DEBUG, argv, ntype, title, message, urls,
                   embed, extracted, reextracted, transport, attempts, stdout, ok>>

\* lines 252-265: read the arguments and build the document
MainFormat ==
    /\ pc = "args"
    /\ Len(argv) >= 3
    /\ ntype' = NormalizeType(argv[1])
    /\ title' = argv[2]
    /\ message' = argv[3]
    /\ urls' = ParseUrls(SubSeq(argv, 4, Len(argv)))
    /\ stderr' = stderr \o << <<"NOTICE: received notification type", 0>> >>
    /\ embed' = make_embed(ntype', title', message', urls')
    /\ pc' = "send"
    /\ UNCHANGED <<DEFAULT_WEBHOOK, DEFAULT_DEBUG, argv, extracted, reextracted,
                   transport, attempts, stdout, ok, exitcode>>

\* SendDebug without its return: the payload is printed and the POST follows
SendDebugFallsThrough ==
    /\ pc = "send"
    /\ DEFAULT_DEBUG
    /\ stdout' = stdout \o << [line |-> "DEBUG: webhook payload:"] >>
    /\ pc' = "request"
    /\ UNCHANGED <<DEFAULT_WEBHOOK, DEFAULT_DEBUG, argv, ntype, title, message, urls,
                   embed, extracted, reextracted, transport, attempts, stderr, ok,
                   exitcode>>

\* send_webhook, lines 172-183: debug prints the payload and returns True
SendDebug ==
    /\ pc = "send"
    /\ DEFAULT_DEBUG
    /\ stdout' = stdout \o << [line |-> "DEBUG: webhook payload:"],
                              [line |-> "json",
                               payload |-> Payload(<<"SABnzbd">>, <<"https://github.com/sabnzbd.png">>, embed)] >>
    /\ ok' = TRUE
    /\ pc' = "returned"
    /\ UNCHANGED <<DEFAULT_WEBHOOK, DEFAULT_DEBUG, argv, ntype, title, message, urls,
                   embed, extracted, reextracted, transport, attempts, stderr, exitcode>>

\* send_webhook, lines 172-193: not debug, announce the attempt
SendNotice ==
    /\ pc = "send"
    /\ ~DEFAULT_DEBUG
    /\ stderr' = stderr \o << <<"NOTICE: sending webhook", Len(DEFAULT_WEBHOOK)>> >>
    /\ pc' = "request"
    /\ UNCHANGED <<DEFAULT_WEBHOOK, DEFAULT_DEBUG, argv, ntype, title, message, urls,
                   embed, extracted, reextracted, transport, attempts, stdout, ok,
                   exitcode>>

\* line 195 raises ValueError outside the try statement: the exception leaves
\* send_webhook and main, no request is made and main returns nothing
RequestRaises ==
    /\ pc = "request"
    /\ ~HasUrlType(DEFAULT_WEBHOOK)
    /\ pc' = "raised"
    /\ UNCHANGED <<DEFAULT_WEBHOOK, DEFAULT_DEBUG, argv, ntype, title, message, urls,
                   embed, extracted, reextracted, transport, attempts, stderr, stdout,
                   ok, exitcode>>

\* lines 195-222: one urlopen call, and the return value its result gives
UrlOpen ==
    /\ pc = "request"
    /\ HasUrlType(DEFAULT_WEBHOOK)
    /\ \E t \in TransportResults :
          /\ transport' = t
          /\ attempts' = attempts + 1
          /\ stderr' = stderr \o Classify(t).lines
          /\ ok' = Classify(t).ok
    /\ pc' = "returned"
    /\ UNCHANGED <<DEFAULT_WEBHOOK, DEFAULT_DEBUG, argv, ntype, title, message, urls,
                   embed, extracted, reextracted, stdout, exitcode>>

\* line 270: return 0 if ok else 1
MainReturn ==
    /\ pc = "returned"
    /\ exitcode' = (IF ok THEN 0 ELSE 1)
    /\ pc' = "exit"
    /\ UNCHANGED <<DEFAULT_WEBHOOK, DEFAULT_DEBUG, argv, ntype, title, message, urls,
                   embed, extracted, reextracted, transport, attempts, stderr, stdout,
                   ok>>

\* the state main starts in, for every configuration and argument list
Init ==
    /\ pc = "main"
    /\ DEFAULT_WEBHOOK \in Webhooks
    /\ DEFAULT_DEBUG \in BOOLEAN
    /\ argv \in Argvs
    /\ ntype = <<>>
    /\ title = <<>>
    /\ message = <<>>
    /\ urls = <<>>
    /\ embed = NoEmbed
    /\ extracted = NoResult
    /\ reextracted = NoResult
    /\ transport = NoTransport
    /\ attempts = 0
    /\ stderr = <<>>
    /\ stdout = <<>>
    /\ ok = FALSE
    /\ exitcode = -1

Next ==
    \/ MainNoWebhook
    \/ MainConfigured
    \/ MainTooFewArgs
    \/ MainFormat
    \/ SendDebug
    \/ SendNotice
    \/ RequestRaises
    \/ UrlOpen
    \/ MainReturn

Spec == Init /\ [][Next]_vars

\* ------------------------------------------------- claims about the delivery
\* whether stderr holds the line
InLog(line) == \E i \in 1..Len(stderr) : stderr[i] = line

\* whether a line of stderr reports the status code
Reported(code) ==
    \/ InLog(<<"Discord responded with HTTP", code>>)
    \/ InLog(<<"HTTPError", code>>)

\* whether any line of stderr starts with the text
InLogText(text) == \E i \in 1..Len(stderr) : stderr[i][1] = text

\* the outcome the finished call shows its caller and the operator
DeliveryOutcome ==
    IF ok THEN "Sent"
    ELSE IF InLogText("Discord responded with HTTP") \/ InLogText("HTTPError") THEN "Rejected"
    ELSE IF InLogText("Error sending webhook") THEN "TransportFailure"
    ELSE "none"

HasStatus(t) == t.kind \in {"response", "http_error"}

Configured == DEFAULT_WEBHOOK # <<>>

\* C1: once a non-debug send_webhook call has returned, its outcome is the one
\* the transport result fixes: a status in [200,300) gives Sent (True), any
\* other status gives Rejected (False, the code reported), an exception gives
\* TransportFailure (False, a description reported); every returned non-debug
\* call has a transport result.
C1_OutcomeByTransport ==
    (pc \in {"returned", "exit"} /\ embed # NoEmbed /\ ~DEFAULT_DEBUG) =>
        /\ transport # NoTransport
        /\ (HasStatus(transport) /\ 200 <= transport.code /\ transport.code < 300) =>
               (ok /\ DeliveryOutcome = "Sent")
        /\ (HasStatus(transport) /\ ~(200 <= transport.code /\ transport.code < 300)) =>
               (~ok /\ DeliveryOutcome = "Rejected" /\ Reported(transport.code))
        /\ transport.kind = "exception" =>
               (~ok /\ DeliveryOutcome = "TransportFailure")

C1_Witness ==
    /\ pc = "returned"
    /\ transport.kind = "response"
    /\ transport.code = 300
    /\ DeliveryOutcome = "Rejected"

\* C2: no exception escapes send_webhook: main never ends by an exception
\* raised inside the delivery.
C2_NoExceptionEscapes == pc # "raised"

\* C3: when main has ended, the number of POST attempts is one if a
\* destination is configured, three arguments are given and debug is off, and
\* zero otherwise.
C3_AttemptCount ==
    pc \in {"exit", "raised"} =>
        attempts = (IF Configured /\ Len(argv) >= 3 /\ ~DEFAULT_DEBUG THEN 1 ELSE 0)

\* C4: in debug mode send_webhook makes no network call and returns True,
\* whatever the destination is; main then returns 0.
C4_DebugIsDryRun ==
    DEFAULT_DEBUG =>
        /\ attempts = 0
        /\ transport = NoTransport
        /\ pc # "raised"
        /\ pc = "returned" => ok
        /\ (pc = "exit" /\ embed # NoEmbed) => exitcode = 0

C4_Witness ==
    /\ pc = "returned"
    /\ DEFAULT_DEBUG
    /\ ~HasUrlType(DEFAULT_WEBHOOK)
    /\ Len(stdout) = 2

\* C5: the 403 hint is printed exactly when the delivery ended as Rejected with
\* status 403, whether the status came as a response code or as an HTTPError.
C5_HintIffRejected403 ==
    pc \in {"returned", "exit"} =>
        (InLog(HintLine) <=>
            (~ok /\ HasStatus(transport) /\ transport.code = 403))

\* ------------------------------------------ the functions, applied to inputs
\* values of the variables a specification does not use
Unused ==
    /\ DEFAULT_DEBUG = FALSE
    /\ transport = NoTransport
    /\ attempts = 0
    /\ stderr = <<>>
    /\ stdout = <<>>
    /\ ok = FALSE
    /\ exitcode = -1

\* extract_fields_from_message(message)
Extract ==
    /\ pc = "call"
    /\ extracted' = extract_fields_from_message(message)
    /\ pc' = "extracted"
    /\ UNCHANGED <<DEFAULT_WEBHOOK, DEFAULT_DEBUG, argv, ntype, title, message, urls,
                   embed, reextracted, transport, attempts, stderr, stdout, ok,
                   exitcode>>

\* extract_fields_from_message applied to the cleaned text it returned
ReExtract ==
    /\ pc = "extracted"
    /\ reextracted' = extract_fields_from_message(extracted.cleaned)
    /\ pc' = "reextracted"
    /\ UNCHANGED <<DEFAULT_WEBHOOK, DEFAULT_DEBUG, argv, ntype, title, message, urls,
                   embed, extracted, transport, attempts, stderr, stdout, ok,
                   exitcode>>

\* make_embed(ntype, title, message, urls)
Embed ==
    /\ pc = "call"
    /\ embed' = make_embed(ntype, title, message, urls)
    /\ pc' = "embedded"
    /\ UNCHANGED <<DEFAULT_WEBHOOK, DEFAULT_DEBUG, argv, ntype, title, message, urls,
                   extracted, reextracted, transport, attempts, stderr, stdout, ok,
                   exitcode>>

InitExtract ==
    /\ pc = "call"
    /\ message \in Messages
    /\ title \in Titles
    /\ ntype = <<"complete">>
    /\ urls = <<>>
    /\ argv = <<>>
    /\ DEFAULT_WEBHOOK = <<>>
    /\ embed = NoEmbed
    /\ extracted = NoResult
    /\ reextracted = NoResult
    /\ Unused

NextExtract == Extract \/ ReExtract \/ Embed

SpecExtract == InitExtract /\ [][NextExtract]_vars

\* make_embed called with the arguments as they are, without main's line 252
CallMakeEmbed ==
    /\ pc = "args"
    /\ ntype' = argv[1]
    /\ title' = argv[2]
    /\ message' = argv[3]
    /\ urls' = ParseUrls(SubSeq(argv, 4, Len(argv)))
    /\ embed' = make_embed(ntype', title', message', urls')
    /\ pc' = "direct"
    /\ UNCHANGED <<DEFAULT_WEBHOOK, DEFAULT_DEBUG, argv, extracted, reextracted,
                   transport, attempts, stderr, stdout, ok, exitcode>>

InitFormat ==
    /\ pc = "args"
    /\ argv \in {<<k, <<"T">>, m>> \o u :
                    k \in RawKinds, m \in SampleMessages,
                    u \in {<<>>, << <<"u1", ",", " ", "u2">> >>}}
    /\ DEFAULT_WEBHOOK = <<"https", ":", "/", "/", "discord.com", "/", "hook">>
    /\ ntype = <<>>
    /\ title = <<>>
    /\ message = <<>>
    /\ urls = <<>>
    /\ embed = NoEmbed
    /\ extracted = NoResult
    /\ reextracted = NoResult
    /\ Unused

NextFormat == CallMakeEmbed \/ MainFormat

SpecFormat == InitFormat /\ [][NextFormat]_vars

\* ----------------------------------------------- claims about the formatter
\* whether the message has a line that is kept and is not blank
HasKeptText(msg) ==
    \E i \in 1..Len(SplitLines(msg)) :
        /\ ~IsFieldLine(SplitLines(msg)[i])
        /\ Strip(SplitLines(msg)[i]) # <<>>

\* C6 as stated: the description of the document is never empty.
C6_DescriptionNeverEmpty == pc = "embedded" => embed.description # <<>>

\* C6, amended: the description is the cleaned description when the message
\* has kept text and the title argument otherwise, so it is non-empty whenever
\* the title is.
C6_DescriptionOrTitle ==
    pc = "embedded" =>
        /\ HasKeptText(message) =>
               /\ embed.description = extract_fields_from_message(message).cleaned
               /\ embed.description # <<>>
        /\ ~HasKeptText(message) => embed.description = title
        /\ title # <<>> => embed.description # <<>>

C6_Witness ==
    /\ pc = "embedded"
    /\ title # <<>>
    /\ message # <<>>
    /\ extract_fields_from_message(message).fields # EmptyDict
    /\ embed.description = title

\* C7: extracting from the cleaned text extracts no field and gives the
\* cleaned text back; no line of it is a field line.
C7_ExtractIdempotent ==
    pc = "reextracted" =>
        /\ reextracted.cleaned = extracted.cleaned
        /\ reextracted.fields = EmptyDict
        /\ \A i \in 1..Len(SplitLines(extracted.cleaned)) :
               LET line == SplitLines(extracted.cleaned)[i]
               IN  ~(Find(line, ":") # 0
                     /\ Lower(Strip(SubSeq(line, 1, Find(line, ":") - 1))) \in FIELD_KEYS)

C7_Witness ==
    /\ pc = "reextracted"
    /\ extracted.fields # EmptyDict
    /\ Find(extracted.cleaned, ":") # 0
    /\ extracted.cleaned # Strip(message)

\* the lines of msg whose text before the first colon normalizes to key
KeyLines(msg, key) ==
    {i \in 1..Len(SplitLines(msg)) :
        /\ Find(SplitLines(msg)[i], ":") # 0
        /\ LineKey(SplitLines(msg)[i]) = key}

Last(S) == CHOOSE i \in S : \A j \in S : j <= i

\* the value of the last line of msg that carries the key
LastValue(msg, key) == LineValue(SplitLines(msg)[Last(KeyLines(msg, key))])

\* the resolved values shown in the two fields, without their glyph prefix
ShownCategory == SubSeq(embed.fields[1].value, 3, Len(embed.fields[1].value))

ShownStatus == SubSeq(embed.fields[2].value, 3, Len(embed.fields[2].value))

Formatted == pc \in {"direct", "send"}

\* C8 as stated: a key that is present decides the field, even with an empty
\* value; the last line carrying the key gives the value.
C8_ResolveByPresence ==
    Formatted =>
        /\ ShownCategory =
              (IF KeyLines(message, <<"category">>) # {}
               THEN LastValue(message, <<"category">>) ELSE ntype)
        /\ ShownStatus =
              (IF KeyLines(message, <<"download", " ", "status">>) # {}
               THEN LastValue(message, <<"download", " ", "status">>)
               ELSE IF KeyLines(message, <<"status">>) # {}
               THEN LastValue(message, <<"status">>) ELSE ntype)

\* whether the key is carried by a line of msg and its last value is not empty
HasValue(msg, key) == KeyLines(msg, key) # {} /\ LastValue(msg, key) # <<>>

\* C8, amended: a key decides the field when it is present with a non-empty
\* value (the value of the last line carrying it); a missing key and an empty
\* value both fall through to the next choice, at the end the event kind.
C8_ResolveByNonEmptyValue ==
    Formatted =>
        /\ ShownCategory =
              (IF HasValue(message, <<"category">>)
               THEN LastValue(message, <<"category">>) ELSE ntype)
        /\ ShownStatus =
              (IF HasValue(message, <<"download", " ", "status">>)
               THEN LastValue(message, <<"download", " ", "status">>)
               ELSE IF HasValue(message, <<"status">>)
               THEN LastValue(message, <<"status">>) ELSE ntype)

C8_Witness ==
    /\ pc = "direct"
    /\ Cardinality(KeyLines(message, <<"category">>)) = 2
    /\ LineValue(SplitLines(message)[1]) # LineValue(SplitLines(message)[2])
    /\ LineValue(SplitLines(message)[1]) # <<>>
    /\ ShownCategory = LineValue(SplitLines(message)[2])
    /\ ShownCategory # ntype

\* the circle the exact-match colors are documented to have
ExactCircle(color) ==
    CASE color = \hF39C12 -> "orange_circle"
      [] color = \h2ECC71 -> "green_circle"
      [] color = \hE74C3C -> "red_circle"
      [] color = \hF1C40F -> "yellow_circle"
      [] color = \h3498DB -> "blue_circle"
      [] OTHER -> "white_square"

\* C9: for every event kind of the table the Category value starts with the
\* circle of the kind's accent color, the exact matches going before the ranges.
C9_CircleOfAccentColor ==
    (Formatted /\ ntype \in DOMAIN EVENT_MAP) =>
        embed.fields[1].value[1] = ExactCircle(EVENT_MAP[ntype][3])

\* label, emoji and color the document shows
Shown == <<SubSeq(embed.title, 6, Len(embed.title)), embed.title[4], embed.color>>

Fallback(kind) == <<Capitalize(kind), "info", \h3498DB>>

\* C10 as stated: make_embed itself trims and lower-cases its event kind, so a
\* direct call shows the table entry of the normalized kind.
C10_MakeEmbedNormalizes ==
    pc = "direct" =>
        LET k == Lower(Strip(argv[1]))
        IN  Shown = (IF k \in DOMAIN EVENT_MAP THEN EVENT_MAP[k] ELSE Fallback(k))

\* C10, amended: the trimming and lower-casing is done by main (line 252), and
\* make_embed looks its argument up as given: through main every spelling of a
\* recognized kind shows the kind's table entry and the fallback is used only
\* when the normalized kind is not in the table; a direct call shows the table
\* entry only for an exact key and the fallback otherwise.
C10_MainNormalizes ==
    /\ pc = "send" =>
          LET k == Lower(Strip(argv[1]))
          IN  Shown = (IF k \in DOMAIN EVENT_MAP THEN EVENT_MAP[k] ELSE Fallback(k))
    /\ pc = "direct" =>
          Shown = (IF argv[1] \in DOMAIN EVENT_MAP THEN EVENT_MAP[argv[1]]
                   ELSE Fallback(argv[1]))

C10_Witness ==
    /\ pc = "send"
    /\ argv[1] = <<" ", "Warning", "\n">>
    /\ Shown = EVENT_MAP[<<"warning">>]

====
